---- MODULE Spec2Model ----
(***************************************************************************)
(* brew-cask-upgrade.py: check the versions of brew cask programs and      *)
(* reinstall every program whose two version strings differ.               *)
(*                                                                         *)
(* Text is modelled as a sequence of one-character strings, so that        *)
(* str.split, str.strip and os.path.basename are computed character by     *)
(* character, as Python computes them.                                     *)
(***************************************************************************)
EXTENDS Integers, Sequences, FiniteSets, TLC

VARIABLES
    argv,               \* positional arguments of the invocation: <<>> or <<name>>
    py3,                \* TRUE when `python` of the shebang line is a Python 3
    brew,               \* the package manager: installed and latest version per cask
    pc,                 \* position of the script
    program_name_list,  \* __main__: the list get_brew_program_list returned
    todo,               \* __main__: names the for loop has not finished yet
    stdoutdata,         \* text returned by the last run() of an info command
    program_info,       \* check_and_update_program: lines of the info text
    current_version,    \* check_and_update_program: result of get_current_version
    new_version,        \* check_and_update_program: result of get_new_version
    exitStatus,         \* exit status of the script, -1 while it runs
    issued,             \* history: every external command run() spawned
    checks,             \* history: every call of check_and_update_program
    console,            \* history: every sys.stdout.write
    releases            \* number of new versions published while the script ran

vars == <<argv, py3, brew, pc, program_name_list, todo, stdoutdata, program_info,
          current_version, new_version, exitStatus, issued, checks, console,
          releases>>

\* the locals of check_and_update_program
locals == <<stdoutdata, program_info, current_version, new_version>>

\* everything SpecExtract leaves alone
world == <<argv, py3, brew, program_name_list, todo, exitStatus, issued, checks,
           console, releases>>

----------------------------------------------------------------------------
(* Bounds *)

\* longest info text enumerated by SpecExtract
MaxText == 6

\* longest list of names `brew cask list` prints
MaxList == 2

\* versions published while the script runs
MaxReleases == 1

----------------------------------------------------------------------------
(* Characters and Python string primitives *)

NL == "\n"

\* characters str.strip() removes
Whitespace == {" ", NL, "\t"}

\* alphabet of the enumerated info texts
Alphabet == {"a", "1", ":", " ", "/", NL}

Range(s) == {s[i] : i \in 1..Len(s)}

\* str.find(c) + 1 : position of the first c in s, 0 when there is none
Find(s, c) ==
    IF c \in Range(s)
    THEN CHOOSE i \in 1..Len(s) : s[i] = c /\ \A j \in 1..(i - 1) : s[j] # c
    ELSE 0

\* str.rfind(c) + 1 : position of the last c in s, 0 when there is none
RFind(s, c) ==
    IF c \in Range(s)
    THEN CHOOSE i \in 1..Len(s) : s[i] = c /\ \A j \in (i + 1)..Len(s) : s[j] # c
    ELSE 0

\* str.split(sep) for a one-character separator: every occurrence splits
RECURSIVE Split(_, _)
Split(s, sep) ==
    LET i == Find(s, sep)
    IN  IF i = 0
        THEN <<s>>
        ELSE <<SubSeq(s, 1, i - 1)>> \o Split(SubSeq(s, i + 1, Len(s)), sep)

RECURSIVE LStrip(_)
LStrip(s) ==
    IF s # <<>> /\ Head(s) \in Whitespace THEN LStrip(Tail(s)) ELSE s

RECURSIVE RStrip(_)
RStrip(s) ==
    IF s # <<>> /\ s[Len(s)] \in Whitespace
    THEN RStrip(SubSeq(s, 1, Len(s) - 1))
    ELSE s

\* str.strip()
Strip(s) == RStrip(LStrip(s))

\* mutant of Basename: cuts after the first '/' instead of the last
BasenameFirstSlash(p) == SubSeq(p, Find(p, "/") + 1, Len(p))

\* os.path.basename (posixpath): i = p.rfind('/') + 1; return p[i:]
Basename(p) == SubSeq(p, RFind(p, "/") + 1, Len(p))

----------------------------------------------------------------------------
(* Results of a Python call: a value, or an exception that propagates *)

Return(v) == [exc |-> "none", value |-> v]
Raise(e) == [exc |-> e, value |-> <<>>]

\* locals that are not bound (yet)
Unbound == [exc |-> "unbound", value |-> <<>>]

----------------------------------------------------------------------------
(* Version extraction *)

\* mutant of get_current_version: the version is not stripped
get_current_version_unstripped(info) ==
    LET parts == Split(info[1], ":")
    IN  IF Len(parts) # 2
        THEN Raise("ValueError")
        ELSE Return(parts[2])

\* program_name, version = program_info[0].split(':'); return version.strip()
get_current_version(info) ==
    LET parts == Split(info[1], ":")
    IN  IF Len(parts) # 2
        THEN Raise("ValueError")
        ELSE Return(Strip(parts[2]))

\* os.path.basename(program_info[2].split(' ')[0])
get_new_version(info) ==
    IF Len(info) < 3
    THEN Raise("IndexError")
    ELSE Return(Basename(Split(info[3], " ")[1]))

\* mutant of NeedsUpgrade: the comparison inverted
NeedsUpgradeInverted(cur, new) == cur = new

\* if current_version != new_version:
NeedsUpgrade(cur, new) == cur # new

\* get_brew_program_info: stdoutdata.split('\n')
InfoLines(text) == Split(text, NL)

----------------------------------------------------------------------------
(* SpecExtract: the parse-and-compare pipeline of check_and_update_program *)
(* applied to every info text of at most MaxText characters.               *)

Texts == UNION {[1..n -> Alphabet] : n \in 0..MaxText}

XInit ==
    /\ stdoutdata \in Texts
    /\ program_info = <<>>
    /\ current_version = Unbound
    /\ new_version = Unbound
    /\ pc = "split"
    /\ argv = <<>>
    /\ py3 = FALSE
    /\ brew = [installed |-> <<>>, latest |-> <<>>]
    /\ program_name_list = <<>>
    /\ todo = <<>>
    /\ exitStatus = -1
    /\ issued = <<>>
    /\ checks = <<>>
    /\ console = <<>>
    /\ releases = 0

\* program_info = get_brew_program_info(program_name)
XGetInfo ==
    /\ pc = "split"
    /\ program_info' = InfoLines(stdoutdata)
    /\ pc' = "current"
    /\ UNCHANGED <<stdoutdata, current_version, new_version>>
    /\ UNCHANGED world

\* get_current_version(program_info)
XGetCurrent ==
    /\ pc = "current"
    /\ current_version' = get_current_version(program_info)
    /\ pc' = "new"
    /\ UNCHANGED <<stdoutdata, program_info, new_version>>
    /\ UNCHANGED world

\* get_new_version(program_info)
XGetNew ==
    /\ pc = "new"
    /\ new_version' = get_new_version(program_info)
    /\ pc' = IF current_version.exc = "none" /\ new_version'.exc = "none"
             THEN "compare"
             ELSE "raised"
    /\ UNCHANGED <<stdoutdata, program_info, current_version>>
    /\ UNCHANGED world

\* sys.stdout.write('{}\n'.format(new_version));
\* if current_version != new_version: upgrade_program(...)
XCompare ==
    /\ pc = "compare"
    /\ console' = Append(console, <<"version", new_version.value>>)
    /\ pc' = IF NeedsUpgrade(current_version.value, new_version.value)
             THEN "upgrade"
             ELSE "uptodate"
    /\ UNCHANGED <<stdoutdata, program_info, current_version, new_version>>
    /\ UNCHANGED <<argv, py3, brew, program_name_list, todo, exitStatus, issued,
                   checks, releases>>

XNext == XGetInfo \/ XGetCurrent \/ XGetNew \/ XCompare

SpecExtract == XInit /\ [][XNext]_vars

----------------------------------------------------------------------------
(* The environment: the brew command and what it prints *)

\* casks brew knows
Names == {<<"a">>, <<"b">>}

\* version strings of casks; cask versions may hold a colon
Versions == {<<"1">>, <<"2">>, <<"1", ":", "2">>}

\* installed[p] of a cask that is not installed
NotInstalled == <<>>

\* a byte that is no UTF-8
BadByte == "0xFF"

\* exit statuses a command ends with
RetCodes == {0, 7}

RECURSIVE Join(_)
Join(lines) ==
    IF lines = <<>> THEN <<>> ELSE Head(lines) \o <<NL>> \o Join(Tail(lines))

\* what `brew cask info p` prints: '<p>: <latest>', the homepage, then the
\* installed path '/c/<p>/<installed> (1B)' or 'Not installed'
InfoText(p) ==
    Join(<< p \o <<":", " ">> \o brew.latest[p],
            <<"u">>,
            IF brew.installed[p] = NotInstalled
            THEN <<"N", "o", "t", " ", "i", "n", "s", "t", "a", "l", "l", "e", "d">>
            ELSE <<"/", "c", "/">> \o p \o <<"/">> \o brew.installed[p]
                 \o <<" ", "(", "1", "B", ")">> >>)

NameLists == UNION {[1..n -> Names] : n \in 0..MaxList}

\* output of a command that exits rc; anything a command may print otherwise
Outputs(ok, rc) ==
    IF rc = 0 THEN ok \cup {<<BadByte>>} ELSE {<<"E">>, <<>>, <<BadByte>>}

\* `brew cask list` prints one name per line, or nothing but white space
ListOutputs(rc) == Outputs({Join(l) : l \in NameLists} \cup {<<NL>>}, rc)

\* `brew cask info p` succeeds only for a cask brew knows
InfoOutputs(p, rc) ==
    IF rc = 0 /\ p \notin Names THEN {} ELSE Outputs({InfoText(p)}, rc)

\* `brew cask uninstall p` and `brew cask install p` report what they did
UpgradeOutputs(rc) == Outputs({<<"o">>}, rc)

----------------------------------------------------------------------------
(* run(args, write_to_stdout) *)

\* mutant of ExitsOnFailure: the failure is ignored
NeverExits(returncode) == FALSE

\* if process.returncode != 0: exit(process.returncode)
ExitsOnFailure(returncode) == returncode # 0

\* if stdoutdata: if write_to_stdout or process.returncode != 0: write
Echoes(text, write_to_stdout, returncode) ==
    text # <<>> /\ (write_to_stdout \/ returncode # 0)

\* stdoutdata = process.communicate()[0] or ''; stdoutdata.decode('utf-8'):
\* bytes that are no UTF-8 raise UnicodeDecodeError; under Python 3 the ''
\* that stands in for empty output has no decode and raises AttributeError
Decode(out) ==
    IF BadByte \in Range(out) THEN Raise("UnicodeDecodeError")
    ELSE IF py3 /\ out = <<>> THEN Raise("AttributeError")
    ELSE Return(out)

\* exit(n): the exit status of the process is n modulo 256
ExitCode(returncode) == returncode % 256

\* the outcome of run(): exc is the exception raised ("none" when it returns
\* or exits), exits whether exit(returncode) was called, echoed whether the
\* text was written to stdout, value the text returned
Run(out, returncode, write_to_stdout) ==
    LET d == Decode(out)
    IN  IF d.exc # "none"
        THEN [exc |-> d.exc, exits |-> FALSE, echoed |-> FALSE, value |-> <<>>]
        ELSE [exc |-> "none",
              exits |-> ExitsOnFailure(returncode),
              echoed |-> Echoes(d.value, write_to_stdout, returncode),
              value |-> d.value]

\* run() came back to its caller
Returned(r) == r.exc = "none" /\ ~r.exits

\* the record of one external command in the history
Issue(args, out, returncode, write_to_stdout, r, chk) ==
    [args |-> args, out |-> out, rc |-> returncode, flag |-> write_to_stdout,
     exc |-> r.exc, echoed |-> r.echoed, returned |-> Returned(r),
     value |-> r.value, chk |-> chk]

\* what run() writes to stdout
Echo(r) == IF r.echoed THEN << <<"output", r.value>> >> ELSE <<>>

\* the script ends inside run(): exit(returncode), or an uncaught exception,
\* which ends a Python script with status 1
Abort(r, returncode) ==
    /\ pc' = "exited"
    /\ exitStatus' = IF r.exc # "none" THEN 1 ELSE ExitCode(returncode)

----------------------------------------------------------------------------
(* The script *)

Init ==
    /\ argv \in {<<>>} \cup {<<p>> : p \in Names \cup {<<>>}}
    /\ py3 \in BOOLEAN
    /\ brew \in [installed : [Names -> {NotInstalled, <<"1">>}],
                 latest : [Names -> Versions]]
    /\ pc = "main"
    /\ program_name_list = <<>>
    /\ todo = <<>>
    /\ stdoutdata = <<>>
    /\ program_info = <<>>
    /\ current_version = Unbound
    /\ new_version = Unbound
    /\ exitStatus = -1
    /\ issued = <<>>
    /\ checks = <<>>
    /\ console = <<>>
    /\ releases = 0

\* args.program of nargs='?': None without a positional argument
HasProgram == argv # <<>>

\* mutant of ProgramGiven: any positional argument counts, the empty one too
ProgramGivenNotNone == HasProgram

\* if args.program: an empty string is false
ProgramGiven == HasProgram /\ argv[1] # <<>>

\* __main__: parse the arguments and choose the branch
Main ==
    /\ pc = "main"
    /\ IF ProgramGiven
       THEN /\ todo' = <<argv[1]>>
            /\ pc' = "check"
       ELSE /\ todo' = <<>>
            /\ pc' = "list"
    /\ UNCHANGED <<argv, py3, brew, program_name_list, locals, exitStatus,
                   issued, checks, console, releases>>

\* get_brew_program_list: stdoutdata.strip().split('\n')
ProgramList(text) == Split(Strip(text), NL)

\* program_name_list = get_brew_program_list()
GetBrewProgramList ==
    /\ pc = "list"
    /\ \E rc \in RetCodes : \E out \in ListOutputs(rc) :
        LET r == Run(out, rc, FALSE)
        IN  /\ issued' = Append(issued, Issue(<<"list">>, out, rc, FALSE, r, 0))
            /\ console' = console \o Echo(r)
            /\ IF Returned(r)
               THEN /\ program_name_list' = ProgramList(r.value)
                    /\ todo' = ProgramList(r.value)
                    /\ pc' = IF todo' = <<>> THEN "done" ELSE "check"
                    /\ exitStatus' = IF todo' = <<>> THEN 0 ELSE exitStatus
               ELSE /\ Abort(r, rc)
                    /\ UNCHANGED <<program_name_list, todo>>
    /\ UNCHANGED <<argv, py3, brew, locals, checks, releases>>

\* mutant of NextProgram: the loop steps over the name that follows
NextProgramSkips ==
    /\ todo' = IF Len(todo) > 1 THEN Tail(Tail(todo)) ELSE <<>>
    /\ pc' = IF todo' = <<>> THEN "done" ELSE "check"
    /\ exitStatus' = IF todo' = <<>> THEN 0 ELSE exitStatus

\* the for loop of __main__ after a check came back: the next name, or the
\* end of the script with status 0
NextProgram ==
    /\ todo' = Tail(todo)
    /\ pc' = IF Tail(todo) = <<>> THEN "done" ELSE "check"
    /\ exitStatus' = IF Tail(todo) = <<>> THEN 0 ELSE exitStatus

\* the record of one call of check_and_update_program in the history:
\* same says that brew had the latest version installed when the call began,
\* began and ended count the versions published before the call began and
\* before it returned (-1: it has not returned)
Check(name, state, cur, new) ==
    [name |-> name, state |-> state, cur |-> cur, new |-> new,
     same |-> name \in Names /\ brew.installed[name] = brew.latest[name],
     began |-> releases,
     ended |-> IF state = "uptodate" THEN releases ELSE -1]

\* the current call of check_and_update_program moves on
SetState(state) ==
    [checks EXCEPT ![Len(checks)].state = state,
                   ![Len(checks)].ended =
                        IF state = "upgraded" THEN releases ELSE -1]

\* check_and_update_program(program_name), up to the comparison
CheckAndUpdateProgram ==
    /\ pc = "check"
    /\ LET program_name == Head(todo)
       IN \E rc \in RetCodes : \E out \in InfoOutputs(program_name, rc) :
        LET r == Run(out, rc, FALSE)
            info == InfoLines(r.value)
            cur == get_current_version(info)
            new == IF cur.exc = "none" THEN get_new_version(info) ELSE Unbound
            parsed == cur.exc = "none" /\ new.exc = "none"
            upgrade == parsed /\ NeedsUpgrade(cur.value, new.value)
        IN  /\ issued' = Append(issued,
                    Issue(<<"info", program_name>>, out, rc, FALSE, r,
                          Len(checks) + 1))
            /\ console' = console \o << <<"name", program_name>> >> \o Echo(r)
                    \o (IF Returned(r) /\ parsed
                        THEN << <<"version", new.value>> >>
                        ELSE <<>>)
                    \o (IF Returned(r) /\ upgrade
                        THEN << <<"upgrading", program_name, cur.value, new.value>> >>
                        ELSE <<>>)
            /\ IF ~Returned(r)
               THEN /\ Abort(r, rc)
                    /\ checks' = Append(checks,
                            Check(program_name, "aborted", Unbound, Unbound))
                    /\ UNCHANGED <<todo, locals>>
               ELSE /\ stdoutdata' = r.value
                    /\ program_info' = info
                    /\ current_version' = cur
                    /\ new_version' = new
                    /\ IF ~parsed
                       THEN /\ pc' = "exited"
                            /\ exitStatus' = 1
                            /\ checks' = Append(checks,
                                    Check(program_name, "raised", cur, new))
                            /\ UNCHANGED todo
                       ELSE IF upgrade
                       THEN /\ pc' = "uninstall"
                            /\ checks' = Append(checks,
                                    Check(program_name, "upgrading", cur, new))
                            /\ UNCHANGED <<todo, exitStatus>>
                       ELSE /\ NextProgram
                            /\ checks' = Append(checks,
                                    Check(program_name, "uptodate", cur, new))
    /\ UNCHANGED <<argv, py3, brew, program_name_list, releases>>

\* upgrade_program: run(['brew', 'cask', 'uninstall', program_name])
Uninstall ==
    /\ pc = "uninstall"
    /\ LET program_name == Head(todo)
       IN \E rc \in RetCodes : \E out \in UpgradeOutputs(rc) :
        LET r == Run(out, rc, TRUE)
        IN  /\ issued' = Append(issued,
                    Issue(<<"uninstall", program_name>>, out, rc, TRUE, r,
                          Len(checks)))
            /\ console' = console \o << <<"uninstalling">> >> \o Echo(r)
            /\ brew' = IF rc = 0
                       THEN [brew EXCEPT !.installed[program_name] = NotInstalled]
                       ELSE brew
            /\ IF Returned(r)
               THEN /\ pc' = "install"
                    /\ UNCHANGED <<exitStatus, checks>>
               ELSE /\ Abort(r, rc)
                    /\ checks' = SetState("aborted")
    /\ UNCHANGED <<argv, py3, program_name_list, todo, locals, releases>>

\* upgrade_program: run(['brew', 'cask', 'install', program_name]), then
\* 'Done.' and the return to the for loop
Install ==
    /\ pc = "install"
    /\ LET program_name == Head(todo)
       IN \E rc \in RetCodes : \E out \in UpgradeOutputs(rc) :
        LET r == Run(out, rc, TRUE)
        IN  /\ issued' = Append(issued,
                    Issue(<<"install", program_name>>, out, rc, TRUE, r,
                          Len(checks)))
            /\ console' = console \o << <<"installing">> >> \o Echo(r)
                    \o (IF Returned(r) THEN << <<"done">> >> ELSE <<>>)
            /\ brew' = IF rc = 0
                       THEN [brew EXCEPT !.installed[program_name] =
                                             brew.latest[program_name]]
                       ELSE brew
            /\ IF Returned(r)
               THEN /\ NextProgram
                    /\ checks' = SetState("upgraded")
               ELSE /\ Abort(r, rc)
                    /\ checks' = SetState("aborted")
                    /\ UNCHANGED todo
    /\ UNCHANGED <<argv, py3, program_name_list, locals, releases>>

\* the cask's upstream publishes another version while the script runs
Release ==
    /\ pc \in {"check", "uninstall", "install"}
    /\ releases < MaxReleases
    /\ \E p \in Names : \E v \in Versions \ {brew.latest[p]} :
        brew' = [brew EXCEPT !.latest[p] = v]
    /\ releases' = releases + 1
    /\ UNCHANGED <<argv, py3, pc, program_name_list, todo, locals, exitStatus,
                   issued, checks, console>>

Next ==
    \/ Main
    \/ GetBrewProgramList
    \/ CheckAndUpdateProgram
    \/ Uninstall
    \/ Install
    \/ Release

Spec == Init /\ [][Next]_vars

----------------------------------------------------------------------------
(* Vocabulary of the properties *)

Cmd(r) == r.args[1]
Arg(r) == r.args[2]

Terminated == pc \in {"done", "exited"}

\* the info text of a call was fetched and both versions were extracted
Parsed(c) == c.cur.exc = "none" /\ c.new.exc = "none"

\* a call of check_and_update_program that came back to the for loop
Finished(c) == c.state \in {"uptodate", "upgraded"}

\* the uninstall and install commands call k of check_and_update_program issued
UpgradeCmds(k) ==
    SelectSeq(issued, LAMBDA r : r.chk = k /\ Cmd(r) \in {"uninstall", "install"})

ArgsOf(rs) == [i \in DOMAIN rs |-> rs[i].args]

\* no exception was raised so far: every output decoded and every info parsed
NoException ==
    /\ \A i \in DOMAIN issued : issued[i].exc = "none"
    /\ \A k \in DOMAIN checks : checks[k].state # "raised"

\* the list command came back with the list of names
ListReturned == \E i \in DOMAIN issued : Cmd(issued[i]) = "list" /\ issued[i].returned

CheckNames == [k \in DOMAIN checks |-> checks[k].name]

\* text after the first c of s
RECURSIVE AfterFirst(_, _)
AfterFirst(s, c) ==
    IF s = <<>> THEN <<>>
    ELSE IF Head(s) = c THEN Tail(s)
    ELSE AfterFirst(Tail(s), c)

\* text before the first c of s, all of s when it holds no c
RECURSIVE BeforeFirst(_, _)
BeforeFirst(s, c) ==
    IF s = <<>> \/ Head(s) = c THEN <<>>
    ELSE <<Head(s)>> \o BeforeFirst(Tail(s), c)

\* text after the last c of s, all of s when it holds no c
RECURSIVE AfterLast(_, _)
AfterLast(s, c) == IF c \in Range(s) THEN AfterLast(Tail(s), c) ELSE s

\* s without the white space around it
Trimmed(s) ==
    LET inked == {i \in 1..Len(s) : s[i] \notin Whitespace}
    IN  IF inked = {} THEN <<>>
        ELSE SubSeq(s, CHOOSE i \in inked : \A j \in inked : i <= j,
                       CHOOSE i \in inked : \A j \in inked : i >= j)

----------------------------------------------------------------------------
(* Properties *)

\* C1: when the script has ended, its exit status is 0 if every external
\* command it ran exited 0, and otherwise it is the exit status of the first
\* command that exited non-zero.
C1_ExitStatusIsFirstFailure ==
    Terminated =>
        exitStatus =
            IF \A i \in DOMAIN issued : issued[i].rc = 0
            THEN 0
            ELSE issued[CHOOSE i \in DOMAIN issued :
                            /\ issued[i].rc # 0
                            /\ \A j \in 1..(i - 1) : issued[j].rc = 0].rc

\* What holds of the exit status: 1 when an exception ended the script, and
\* otherwise 0 or the exit status of the first command that exited non-zero.
ExitStatusUnlessException ==
    Terminated =>
        exitStatus =
            IF ~NoException THEN 1
            ELSE IF \A i \in DOMAIN issued : issued[i].rc = 0 THEN 0
            ELSE issued[Len(issued)].rc

\* C2 (as claimed): a check whose info command succeeded and parsed, once it
\* is over, has issued exactly uninstall then install for its name when the
\* two versions differ, and nothing when they are equal. (Stated for the runs
\* in which no exception was raised, which are enough to refute it.)
C2_UpgradeIsUninstallThenInstall ==
    \A k \in DOMAIN checks :
        LET c == checks[k]
        IN  NoException /\ Parsed(c) /\ c.state # "upgrading" =>
                IF c.cur.value # c.new.value
                THEN ArgsOf(UpgradeCmds(k)) =
                        << <<"uninstall", c.name>>, <<"install", c.name>> >>
                ELSE UpgradeCmds(k) = <<>> /\ c.state = "uptodate"

\* C2 (amended): when the two versions differ, exactly one uninstall is issued
\* for the name and exactly one install follows it if and only if run() came
\* back from the uninstall (it exited 0 and its output decoded); the script
\* ends at an uninstall run() did not come back from. When the versions are
\* equal nothing is issued and the loop goes on.
C2_UpgradeUnlessAborted ==
    \A k \in DOMAIN checks :
        LET c == checks[k]
            u == UpgradeCmds(k)
            current == k = Len(checks)
        IN  Parsed(c) =>
                IF c.cur.value # c.new.value
                THEN /\ ArgsOf(u) \in { <<>>,
                                       << <<"uninstall", c.name>> >>,
                                       << <<"uninstall", c.name>>,
                                          <<"install", c.name>> >> }
                     /\ u = <<>> => current /\ pc = "uninstall"
                     /\ Len(u) = 1 =>
                            /\ current
                            /\ IF u[1].returned
                               THEN pc = "install"
                               ELSE pc = "exited" /\ c.state = "aborted"
                     /\ Len(u) = 2 =>
                            /\ u[1].returned
                            /\ c.state = "upgraded" <=> u[2].returned
                ELSE /\ u = <<>>
                     /\ c.state = "uptodate"
                     /\ current => pc \in {"check", "done"}

C2_Witness ==
    \E k1, k2 \in DOMAIN checks :
        /\ checks[k1].state = "upgraded"
        /\ checks[k2].state = "uptodate"

\* C3 (as claimed): when the script has ended after the lister returned a list
\* of N names, check_and_update_program was called exactly N times, once per
\* listed name in listed order. (Stated for the runs in which no exception
\* was raised, which are enough to refute it.)
C3_EveryListedNameChecked ==
    Terminated /\ ListReturned /\ NoException => CheckNames = program_name_list

\* C3 (amended): the calls are made for a prefix of the list, in listed order,
\* each one back before the next begins; all N are made when the script
\* reaches its end, and fewer only when a call ended the script.
C3_ListedPrefixChecked ==
    ListReturned =>
        /\ Len(checks) <= Len(program_name_list)
        /\ CheckNames = SubSeq(program_name_list, 1, Len(checks))
        /\ \A k \in 1..(Len(checks) - 1) : Finished(checks[k])
        /\ pc = "done" =>
                /\ Len(checks) = Len(program_name_list)
                /\ \A k \in DOMAIN checks : Finished(checks[k])
        /\ pc = "exited" /\ checks # <<>> =>
                checks[Len(checks)].state \in {"aborted", "raised"}

C3_Witness ==
    /\ pc = "done"
    /\ Len(program_name_list) = 2
    /\ program_name_list[1] # program_name_list[2]
    /\ CheckNames = program_name_list

\* C4: no external command is issued after one that exited non-zero; in
\* particular no install follows a failed uninstall.
C4_NothingAfterFailure ==
    /\ \A i, j \in DOMAIN issued : i < j => issued[i].rc = 0
    /\ \A i, j \in DOMAIN issued :
            i < j /\ Cmd(issued[i]) = "uninstall" /\ Cmd(issued[j]) = "install"
                  /\ Arg(issued[i]) = Arg(issued[j])
                => issued[i].rc = 0

C4_Witness ==
    /\ pc = "exited"
    /\ Len(todo) = 2
    /\ issued # <<>>
    /\ Cmd(issued[Len(issued)]) = "uninstall"
    /\ issued[Len(issued)].rc # 0
    /\ issued[Len(issued)].returned = FALSE

\* C5 (as claimed): with a positional argument the list command is never
\* issued and every command names the argument; the list command is issued
\* only when the argument is omitted.
C5_ArgumentCheckedAlone ==
    /\ argv # <<>> =>
            \A i \in DOMAIN issued :
                Cmd(issued[i]) # "list" /\ Arg(issued[i]) = argv[1]
    /\ (\E i \in DOMAIN issued : Cmd(issued[i]) = "list") => argv = <<>>

\* C5 (amended): with a non-empty positional argument the list command is
\* never issued and every command names the argument; the list command is
\* issued, first, exactly when the argument is omitted or is the empty string.
C5_NonEmptyArgumentCheckedAlone ==
    LET named == argv # <<>> /\ argv[1] # <<>>
    IN  /\ named =>
                \A i \in DOMAIN issued :
                    Cmd(issued[i]) # "list" /\ Arg(issued[i]) = argv[1]
        /\ ~named =>
                \A i \in DOMAIN issued : Cmd(issued[i]) = "list" <=> i = 1

C5_Witness ==
    /\ argv = << <<"a">> >>
    /\ pc = "done"
    /\ ArgsOf(issued) = << <<"info", <<"a">> >>, <<"uninstall", <<"a">> >>,
                           <<"install", <<"a">> >> >>

\* C6: when the list command succeeds with nothing but white space, no info,
\* uninstall or install command is issued for the empty name.
C6_NoEmptyNameChecked ==
    \A i \in DOMAIN issued :
        /\ Cmd(issued[i]) = "list"
        /\ issued[i].returned
        /\ Range(issued[i].value) \subseteq Whitespace
        => \A j \in DOMAIN issued :
                Cmd(issued[j]) # "list" => Arg(issued[j]) # <<>>

\* C7: a check of a package whose installed version is the latest one issues
\* no uninstall and no install; and that is the case of a check that follows a
\* finished check of the same package (one that upgraded it included) with no
\* version published in between.
C7_SecondCheckIdle ==
    /\ \A k \in DOMAIN checks : checks[k].same => UpgradeCmds(k) = <<>>
    /\ \A k1, k2 \in DOMAIN checks :
            /\ k1 < k2
            /\ checks[k1].name = checks[k2].name
            /\ Finished(checks[k1])
            /\ checks[k2].began = checks[k1].ended
            => checks[k2].same /\ UpgradeCmds(k2) = <<>>

C7_Witness ==
    \E k \in DOMAIN checks :
        /\ k > 1
        /\ checks[k - 1].name = checks[k].name
        /\ checks[k - 1].state = "upgraded"
        /\ checks[k].began = checks[k - 1].ended
        /\ checks[k].state = "uptodate"

\* C8: the output of every external command is echoed if and only if
\* always-echo was requested or the command exited non-zero (for empty output
\* there is nothing to echo), and on exit status 0 the text is returned.
C8_EchoedIffFlagOrFailure ==
    \A i \in DOMAIN issued :
        LET r == issued[i]
        IN  /\ r.out # <<>> => (r.echoed <=> r.flag \/ r.rc # 0)
            /\ r.rc = 0 => r.returned /\ r.value = r.out

\* What holds of the echo: the rule of C8 for every output that decodes.
EchoedWhenDecoded ==
    \A i \in DOMAIN issued :
        LET r == issued[i]
        IN  r.exc = "none" =>
                /\ r.out # <<>> => (r.echoed <=> r.flag \/ r.rc # 0)
                /\ r.rc = 0 => r.returned /\ r.value = r.out

\* C9: for a first line that holds a colon, get_current_version returns the
\* text after the first colon without the white space around it.
C9_CurrentVersionAfterFirstColon ==
    pc \notin {"split", "current"} /\ ":" \in Range(program_info[1]) =>
        current_version = Return(Trimmed(AfterFirst(program_info[1], ":")))

\* What holds of get_current_version: the value of C9 for a first line with
\* exactly one colon, ValueError for every other first line.
CurrentVersionOneColon ==
    pc \notin {"split", "current"} =>
        current_version =
            IF Cardinality({i \in 1..Len(program_info[1]) :
                                program_info[1][i] = ":"}) = 1
            THEN Return(Trimmed(AfterFirst(program_info[1], ":")))
            ELSE Raise("ValueError")

\* C10: for an info text of at least three lines, get_new_version returns the
\* text after the last '/' of what precedes the first space of the third
\* line; that value is the one printed and compared with the current version.
C10_NewVersionIsBasename ==
    LET available == AfterLast(BeforeFirst(program_info[3], " "), "/")
    IN  /\ pc \notin {"split", "current", "new"} /\ Len(program_info) >= 3 =>
                new_version = Return(available)
        /\ pc \in {"upgrade", "uptodate"} =>
                /\ console = << <<"version", available>> >>
                /\ pc = "upgrade" <=> current_version.value # available

C10_Witness ==
    /\ pc = "upgrade"
    /\ new_version.value # <<>>
    /\ "/" \in Range(BeforeFirst(program_info[3], " "))
    /\ " " \in Range(program_info[3])

====
